---- MODULE Spec2Model ----
(***************************************************************************)
(* A model of src/stealth.py: HumanBehavior (personality, fatigue),        *)
(* AdvancedMouseSimulator (move_to and its trajectory, click_at and its    *)
(* micro-movement task), AdvancedScrollSimulator (scroll), HumanActions    *)
(* (the filler actions and maybe_distraction), the persisted state file of *)
(* StealthBot (_load_state / _save_state, start / stop) and the session    *)
(* loop (process_urls, _check_session_limits).                             *)
(*                                                                         *)
(* Real numbers are fixed point: fatigue in 1/FatigueScale, traits and     *)
(* control points in 1/100, time in whole minutes.                         *)
(***************************************************************************)
EXTENDS Integers, Sequences, FiniteSets, TLC

VARIABLES
    now,            \* the wall clock (datetime.now()), in minutes
    session_start,  \* HumanBehavior.session_start
    fatigue,        \* HumanBehavior.fatigue, in 1/FatigueScale
    actions_count,  \* HumanBehavior.actions_count
    personality,    \* HumanBehavior.personality, a JSON-like value
    sampled,        \* the personality HumanBehavior.__init__ sampled in this run
    file,           \* the content of config.state_file
    stats,          \* StealthBot.stats
    pc,             \* where the current run of the bot is
    run,            \* the number of runs constructed so far
    prev,           \* what the previous run did and the personality it used
    saved,          \* _save_state has truncated and written the file
    loadedMalformed, \* this run was constructed on a malformed record
    urls,           \* process_urls: the URLs its loop has not reached yet
    spc,            \* process_urls: "idle" (not running) or "loop"
    limitFailed,    \* a session-limit check of process_urls has failed in this run
    step,           \* what the last step did: dispatched a URL, started a unit,
                    \* emitted device calls
    current_pos,    \* AdvancedMouseSimulator.current_pos
    last_move,      \* the coordinates of the last page.mouse.move, <<>> before any
    frames,         \* the active move_to calls, the innermost last
    call,           \* the top-level move_to call: its arguments, where it started
    legs,           \* the trajectories the top-level call generated so far
    moves_made,     \* the top-level move_to calls made so far
    scr,            \* AdvancedScrollSimulator.scroll: the call in flight or the last one
    clk,            \* click_at: the call in flight or the last one, and its task
    failure,        \* the device failure the last operation met, if any
    viewport,       \* what page.evaluate returns for the window: <<w, h>>
    act,            \* the HumanActions calls in flight, the outermost first
    dis,            \* maybe_distraction: the last call, what it chose and returned
    insta           \* InstagramHumanBot: mouse_pos, the device pointer, the call in flight

behaviorVars == <<now, session_start, fatigue, actions_count>>
stateVars == <<personality, sampled, file, stats, pc, run, prev, saved, loadedMalformed>>
sessionVars == <<urls, spc, limitFailed, step>>
mouseVars == <<current_pos, last_move, frames, call, legs, moves_made>>
actuatorVars == <<scr, clk, failure>>
fillerVars == <<viewport, act, dis>>
engineVars == <<actuatorVars, fillerVars>>

vars == <<behaviorVars, stateVars, sessionVars, mouseVars, engineVars, insta>>

(***************************************************************************)
(* Bounds of the model                                                     *)
(***************************************************************************)
MaxMinutes == 35
MaxActionsCount == 32
TickSteps == {1, 5}
MaxRuns == 2
\* the units of work a run of SpecState processes before it stops
MaxStateUnits == 1

(***************************************************************************)
(* HumanBehavior.update_fatigue                                            *)
(***************************************************************************)
Min(a, b) == IF a < b THEN a ELSE b
Max(a, b) == IF a > b THEN a ELSE b

\* 1/300 represents session_duration / 60 (minutes) and actions_count / 100
\* exactly: d/60 = 5d/300, n/100 = 3n/300
FatigueScale == 3 * 100

\* min(session_duration / 60, 0.5)
TimeFatigue(duration) == Min(5 * duration, FatigueScale \div 2)

\* min(self.actions_count / 100, 0.3)
ActionFatigue(count) == Min(3 * count, (3 * FatigueScale) \div 10)

\* the fatigue with its clamps forgotten
FatigueOf_Unclamped(duration, count) == 5 * duration + 3 * count

\* min(time_fatigue + action_fatigue, 0.8)
FatigueOf(duration, count) ==
    Min(TimeFatigue(duration) + ActionFatigue(count), (8 * FatigueScale) \div 10)

\* The assignments of update_fatigue: fatigue from the clock and the count
\* before the increment, then the increment.
UpdateFatigueEffect ==
    /\ fatigue' = FatigueOf(now - session_start, actions_count)
    /\ actions_count' = actions_count + 1

BehaviorInit ==
    /\ now = 0
    /\ session_start = 0
    /\ fatigue = 0
    /\ actions_count = 0

(***************************************************************************)
(* JSON-like values: what json.load returns and json.dump accepts, and the *)
(* Python values the bot keeps in personality and stats.                   *)
(***************************************************************************)
Null == [t |-> "null", v |-> 0]
Num(n) == [t |-> "num", v |-> n]
Str(s) == [t |-> "str", v |-> s]
List(q) == [t |-> "list", v |-> q]
Dict(d) == [t |-> "dict", v |-> d]
\* datetime.now(): a Python object json cannot serialise
DateTime(m) == [t |-> "datetime", v |-> m]
\* datetime.now().isoformat(): a JSON string
IsoFormat(m) == [t |-> "isostr", v |-> m]

TraitNames == {"speed", "accuracy", "patience", "curiosity", "focus"}

\* the ranges of random.uniform in HumanBehavior.__init__, in 1/100
TraitLo == [speed |-> 70, accuracy |-> 85, patience |-> 60, curiosity |-> 30, focus |-> 70]
TraitHi == [speed |-> 130, accuracy |-> 98, patience |-> 140, curiosity |-> 80, focus |-> 100]

\* the draws of random.uniform the model distinguishes: both ends and a
\* point inside each range
UniformDraws == {0, 1, 2}
Uniform(lo, hi, draw) == CASE draw = 0 -> lo [] draw = 1 -> (lo + hi) \div 2 [] OTHER -> hi

\* self.personality = {...} of HumanBehavior.__init__, one draw for all traits
SamplePersonality(draw) ==
    Dict([k \in TraitNames |-> Num(Uniform(TraitLo[k], TraitHi[k], draw))])

FreshPersonalities == {SamplePersonality(d) : d \in UniformDraws}

\* self.stats of StealthBot.__init__
InitStats ==
    [total |-> 0, likes |-> 0, follows |-> 0, errors |-> 0, session_start |-> Null]

(***************************************************************************)
(* The state file. exists: os.path.exists; parses: json.load accepts its   *)
(* text; value: the JSON value of the text (of a truncated text: the part  *)
(* that was written).                                                      *)
(***************************************************************************)
Absent == [exists |-> FALSE, parses |-> FALSE, value |-> Null]
Garbage == [exists |-> TRUE, parses |-> FALSE, value |-> Null]
JsonFile(v) == [exists |-> TRUE, parses |-> TRUE, value |-> v]
Truncated(v) == [exists |-> TRUE, parses |-> FALSE, value |-> v]

\* a complete personality whose speed is out of range
OutOfRangePersonality ==
    Dict([k \in TraitNames |-> IF k = "speed" THEN Num(500) ELSE Num(TraitLo[k])])
\* a complete set of keys, one of them not a number
NonNumericPersonality ==
    Dict([k \in TraitNames |-> IF k = "accuracy" THEN Str("high") ELSE Num(TraitLo[k])])
\* an incomplete set of traits
PartialPersonality == Dict([speed |-> Num(100)])

\* the state files a first run may find
InitialFiles ==
    { Absent,
      Garbage,
      JsonFile(Num(5)),
      JsonFile(List(<<Str("personality")>>)),
      JsonFile(Dict([last_session |-> IsoFormat(0)])),
      JsonFile(Dict([personality |-> Null])),
      JsonFile(Dict([personality |-> PartialPersonality])),
      JsonFile(Dict([personality |-> NonNumericPersonality])),
      JsonFile(Dict([personality |-> OutOfRangePersonality])),
      JsonFile(Dict([personality |-> SamplePersonality(1)])) }

\* StealthBot._load_state: the personality after it, given the sampled one.
\* `'personality' in state` raises or is false for every non-dict, and a
\* raise inside the try is swallowed.
LoadState(f, p) ==
    IF /\ f.exists
       /\ f.parses
       /\ f.value.t = "dict"
       /\ "personality" \in DOMAIN f.value.v
    THEN f.value.v.personality
    ELSE p

\* json.dump raises TypeError on a datetime
Serialisable(v) == v.t # "datetime"

\* the 'stats' entry as json.dump writes it, key by key in insertion order,
\* up to the first value it cannot serialise
StatsKeys == <<"total", "likes", "follows", "errors", "session_start">>
StatsValue(st, k) == IF k = "session_start" THEN st.session_start ELSE Num(st[k])
WrittenStatsKeys(st) ==
    IF Serialisable(st.session_start)
    THEN {StatsKeys[i] : i \in 1..Len(StatsKeys)}
    ELSE {StatsKeys[i] : i \in 1..(Len(StatsKeys) - 1)}
DumpStats(st) == Dict([k \in WrittenStatsKeys(st) |-> StatsValue(st, k)])

\* a state dict that also carries the session's fatigue
StateRecord_WithFatigue(p, st, clock) ==
    Dict([personality |-> p, last_session |-> IsoFormat(clock), stats |-> DumpStats(st),
          fatigue |-> Num(fatigue)])

\* the state dict of _save_state as it reaches the file
StateRecord(p, st, clock) ==
    Dict([personality |-> p, last_session |-> IsoFormat(clock), stats |-> DumpStats(st)])

\* StealthBot._save_state: open(..., 'w') truncates, json.dump(indent=2)
\* writes chunk by chunk and raises at the datetime in stats
SaveState(p, st, clock) ==
    IF Serialisable(st.session_start)
    THEN JsonFile(StateRecord(p, st, clock))
    ELSE Truncated(StateRecord(p, st, clock))
SaveStateRaises(st) == ~Serialisable(st.session_start)

\* a value formats with :.2f
IsNumber(v) == v.t = "num"
\* p[key] evaluates to a number
HasNumber(p, key) == p.t = "dict" /\ key \in DOMAIN p.v /\ IsNumber(p.v[key])

\* the f-string of start(): personality['speed']:.2f, personality['accuracy']:.2f
LogPersonalityRaises(p) == ~(HasNumber(p, "speed") /\ HasNumber(p, "accuracy"))
\* should_make_mistake: 1 - self.personality['accuracy']
MistakeRuleRaises(p) == ~HasNumber(p, "accuracy")
\* should_get_distracted: self.personality['curiosity'] * 0.1
DistractionRuleRaises(p) == ~HasNumber(p, "curiosity")

\* every declared trait is present, a number and within its range
InBounds(p) ==
    /\ p.t = "dict"
    /\ TraitNames \subseteq DOMAIN p.v
    /\ \A k \in TraitNames :
        /\ IsNumber(p.v[k])
        /\ p.v[k].v >= TraitLo[k]
        /\ p.v[k].v <= TraitHi[k]

\* the record is a complete set of five numeric traits
CompleteNumeric(p) ==
    /\ p.t = "dict"
    /\ DOMAIN p.v = TraitNames
    /\ \A k \in TraitNames : IsNumber(p.v[k])

\* a record that exists and is unparseable, or parses to something whose
\* 'personality' entry is not a complete set of five numeric traits
Malformed(f) ==
    /\ f.exists
    /\ \/ ~f.parses
       \/ f.value.t # "dict"
       \/ /\ "personality" \in DOMAIN f.value.v
          /\ ~CompleteNumeric(f.value.v.personality)

\* a step that dispatched nothing and emitted nothing
\* the last step of the session: whether process_urls dispatched a URL in
\* it, whether a unit of work started, the device calls it made, whether an
\* exception was caught in the unit, and what process_url returned
NoStep ==
    [dispatch |-> FALSE, unit |-> FALSE, device |-> 0, caught |-> FALSE,
     returned |-> FALSE]

SessionIdle ==
    /\ urls = <<>>
    /\ spc = "idle"
    /\ limitFailed = FALSE
    /\ step = NoStep

NoPrev == [valid |-> FALSE, started |-> FALSE, personality |-> Null]

\* no bot constructed yet
StateInit ==
    /\ personality = Null
    /\ sampled = Null
    /\ file \in InitialFiles
    /\ stats = InitStats
    /\ pc = "none"
    /\ run = 0
    /\ prev = NoPrev
    /\ saved = FALSE
    /\ loadedMalformed = FALSE

\* a started bot with a fresh personality and no state file
StateIdle ==
    /\ personality = SamplePersonality(1)
    /\ sampled = SamplePersonality(1)
    /\ file = Absent
    /\ stats = [InitStats EXCEPT !.session_start = DateTime(0)]
    /\ pc = "started"
    /\ run = 1
    /\ prev = NoPrev
    /\ saved = FALSE
    /\ loadedMalformed = FALSE

\* StealthBot.__init__ in a new process: HumanBehavior(), stats, _load_state
Construct ==
    /\ pc \in {"none", "stopped", "stopRaised"}
    /\ run < MaxRuns
    /\ \E d \in UniformDraws :
        /\ sampled' = SamplePersonality(d)
        /\ personality' = LoadState(file, SamplePersonality(d))
    /\ loadedMalformed' = Malformed(file)
    /\ stats' = InitStats
    /\ session_start' = now
    /\ fatigue' = 0
    /\ actions_count' = 0
    /\ run' = run + 1
    /\ pc' = "constructed"
    /\ limitFailed' = FALSE
    /\ step' = NoStep
    /\ UNCHANGED <<insta, engineVars, mouseVars, now, file, prev, saved, urls, spc>>

\* StealthBot.start: the browser is connected (the driver may raise), then
\* stats['session_start'] is set and the personality is logged
Start ==
    /\ pc = "constructed"
    /\ \/ /\ pc' = "startRaised"
          /\ UNCHANGED stats
       \/ /\ stats' = [stats EXCEPT !.session_start = DateTime(now)]
          /\ pc' = IF LogPersonalityRaises(personality) THEN "startRaised" ELSE "started"
    /\ step' = NoStep
    /\ UNCHANGED <<insta, engineVars, mouseVars, behaviorVars, personality, sampled, file, run, prev, saved, loadedMalformed,
                   urls, spc, limitFailed>>

\* StealthBot.stop, called by main's finally after start returned or raised:
\* _save_state first; what follows it runs only if it returns
Stop ==
    /\ pc \in {"started", "startRaised"}
    /\ spc = "idle"
    /\ file' = SaveState(personality, stats, now)
    /\ saved' = TRUE
    /\ prev' = [valid |-> TRUE, started |-> (pc = "started"), personality |-> personality]
    /\ pc' = IF SaveStateRaises(stats) THEN "stopRaised" ELSE "stopped"
    /\ step' = NoStep
    /\ UNCHANGED <<insta, engineVars, mouseVars, behaviorVars, personality, sampled, stats, run, loadedMalformed,
                   urls, spc, limitFailed>>

(***************************************************************************)
(* The session loop: _check_session_limits, process_url, process_urls      *)
(***************************************************************************)
\* StealthConfig.max_session_duration_minutes and max_actions_per_session,
\* as set on the command line (--max-time, --max-actions)
max_session_duration_minutes == 3
max_actions_per_session == 3

\* the most iterations of watch_content's loop in one unit of work
MaxWatchIters == 2
\* the longest URL list handed to process_urls
MaxUrls == 2
\* the clock of the session runs to this minute
MaxSessionClock == 5

UrlKinds == {"reel", "post", "other"}

RECURSIVE SeqsUpTo(_, _)
SeqsUpTo(S, n) ==
    IF n = 0 THEN {<<>>}
    ELSE LET shorter == SeqsUpTo(S, n - 1)
         IN  shorter \cup {Append(q, x) : q \in shorter, x \in S}

\* the ceiling compared with > instead of >=
ActionLimitReached_Strict(st) == st.total > max_actions_per_session

\* stats['total'] >= max_actions_per_session
ActionLimitReached(st) == st.total >= max_actions_per_session

\* the duration compared with = instead of >=
TimeLimitReached_Exact(st, clock) ==
    /\ st.session_start.t = "datetime"
    /\ clock - st.session_start.v = max_session_duration_minutes

\* duration >= max_session_duration_minutes, checked only once
\* stats['session_start'] is set
TimeLimitReached(st, clock) ==
    /\ st.session_start.t = "datetime"
    /\ clock - st.session_start.v >= max_session_duration_minutes

\* StealthBot._check_session_limits
CheckSessionLimits(st, clock) ==
    ~TimeLimitReached(st, clock) /\ ~ActionLimitReached(st)

\* the try blocks of process_reel and process_post read speed and patience
\* (get_adjusted_delay, get_watch_time_multiplier) before anything else
PersonalityUsable(p) == HasNumber(p, "speed") /\ HasNumber(p, "patience")

\* k calls of update_fatigue at one reading of the clock
UpdateFatigueTimes(k) ==
    /\ fatigue' = IF k = 0 THEN fatigue
                  ELSE FatigueOf(now - session_start, actions_count + k - 1)
    /\ actions_count' = actions_count + k

\* the counters of a unit that counts itself only at the end of its try
\* block
UnitStats_CountedAtEnd(st, liked, err) ==
    [st EXCEPT !.total = IF err THEN @ ELSE @ + 1,
               !.likes = IF liked THEN @ + 1 ELSE @,
               !.errors = IF err THEN @ + 1 ELSE @]

\* the counters after one unit of work: total first, then likes if
\* like_content returned true, errors if the try block raised
UnitStats(st, liked, err) ==
    [st EXCEPT !.total = @ + 1,
               !.likes = IF liked THEN @ + 1 ELSE @,
               !.errors = IF err THEN @ + 1 ELSE @]

\* process_reel / process_post: the limit check, the counter, then the try
\* block: k iterations of watch_content, the like, a possible exception,
\* dev device calls on the way
ProcessContent(dispatch) ==
    IF ~CheckSessionLimits(stats, now)
    THEN /\ step' = [dispatch |-> dispatch, unit |-> FALSE, device |-> 0,
                     caught |-> FALSE, returned |-> FALSE]
         /\ UNCHANGED <<stats, fatigue, actions_count>>
    ELSE \E k \in 0..MaxWatchIters, liked \in BOOLEAN, err \in BOOLEAN, dev \in 0..1 :
            /\ (~err \/ liked) => k >= 1
            /\ ~PersonalityUsable(personality) => (err /\ k = 0 /\ ~liked /\ dev = 0)
            /\ stats' = UnitStats(stats, liked, err)
            /\ UpdateFatigueTimes(k)
            /\ step' = [dispatch |-> dispatch, unit |-> TRUE, device |-> dev,
                        caught |-> err, returned |-> ~err]

\* StealthBot.process_url: '/reel/' and '/p/' URLs are processed, any other
\* is logged and dropped
ProcessUrlEffect(kind, dispatch) ==
    IF kind \in {"reel", "post"}
    THEN ProcessContent(dispatch)
    ELSE /\ step' = [dispatch |-> dispatch, unit |-> FALSE, device |-> 0,
                     caught |-> FALSE, returned |-> FALSE]
         /\ UNCHANGED <<stats, fatigue, actions_count>>

\* a caller calls process_url itself
ProcessUrl ==
    /\ pc = "started"
    /\ spc = "idle"
    /\ \E kind \in UrlKinds : ProcessUrlEffect(kind, FALSE)
    /\ UNCHANGED <<insta, engineVars, mouseVars, now, session_start, personality, sampled, file, pc, run, prev, saved,
                   loadedMalformed, urls, spc, limitFailed>>

\* process_urls is called with a list of URLs
ProcessUrlsCall ==
    /\ pc = "started"
    /\ spc = "idle"
    /\ \E us \in SeqsUpTo(UrlKinds, MaxUrls) : urls' = us
    /\ spc' = "loop"
    /\ step' = NoStep
    /\ UNCHANGED <<insta, engineVars, mouseVars, behaviorVars, stateVars, limitFailed>>

\* one iteration of the loop of process_urls: the limit check and break, or
\* process_url on the next URL
LoopIteration ==
    /\ spc = "loop"
    /\ urls # <<>>
    /\ IF ~CheckSessionLimits(stats, now)
       THEN /\ limitFailed' = TRUE
            /\ urls' = <<>>
            /\ spc' = "idle"
            /\ step' = NoStep
            /\ UNCHANGED <<stats, fatigue, actions_count>>
       ELSE /\ ProcessUrlEffect(Head(urls), TRUE)
            /\ urls' = Tail(urls)
            /\ UNCHANGED <<spc, limitFailed>>
    /\ UNCHANGED <<insta, engineVars, mouseVars, now, session_start, personality, sampled, file, pc, run, prev, saved,
                   loadedMalformed>>

\* the list is exhausted: _print_stats and return
LoopEnd ==
    /\ spc = "loop"
    /\ urls = <<>>
    /\ spc' = "idle"
    /\ step' = NoStep
    /\ UNCHANGED <<insta, engineVars, mouseVars, behaviorVars, stateVars, urls, limitFailed>>

\* time passes during the awaits of a session
SessionTick ==
    /\ now < MaxSessionClock
    /\ now' = now + 1
    /\ step' = NoStep
    /\ UNCHANGED <<insta, engineVars, mouseVars, session_start, fatigue, actions_count, stateVars, urls, spc, limitFailed>>

(***************************************************************************)
(* The operations on the device besides move_to: what each record holds    *)
(* while no such operation has been called                                 *)
(***************************************************************************)
\* no device call of the last operation has raised
NoFailure == [failed |-> FALSE, op |-> "none", at |-> "none"]

\* no scroll called yet
NoScroll ==
    [active |-> FALSE, smooth |-> FALSE, direction |-> "none", amount |-> 0,
     plan |-> <<>>, i |-> 1, sum |-> 0, wheels |-> 0, inertia |-> 0, raised |-> FALSE,
     made |-> 0]

\* no click_at called yet, no _micro_movement task created; before,
\* down_at and up_at are the last coordinates the device had been sent when
\* click_at was called, at page.mouse.down() and at page.mouse.up()
NoClick ==
    [pc |-> "idle", presses |-> 0, releases |-> 0, task |-> "none", nudges |-> 0,
     made |-> 0, before |-> <<>>, down_at |-> <<>>, up_at |-> <<>>]

\* no maybe_distraction called yet
NoDistraction == [calls |-> 0, result |-> "none", invoked |-> <<>>, candidates |-> {}]

\* the window of the browser profile
DefaultViewport == <<1280, 800>>

\* InstagramHumanBot.__init__: mouse_pos, nothing sent to the device yet
\* (sent, in 1/100, is <<>>), no call in flight
NoInsta ==
    [mouse_pos |-> <<215, 400>>, sent |-> <<>>, pc |-> "idle", path |-> <<>>, i |-> 1,
     target |-> <<0, 0>>, after |-> "none", start |-> <<0, 0>>, end_y |-> 0, steps |-> 0,
     calls |-> 0]

\* the simulators of a started bot in a window of size vp, nothing called
EngineIdleIn(vp) ==
    /\ scr = NoScroll
    /\ insta = NoInsta
    /\ clk = NoClick
    /\ failure = NoFailure
    /\ viewport = vp
    /\ act = <<>>
    /\ dis = NoDistraction

EngineIdle == EngineIdleIn(DefaultViewport)

(***************************************************************************)
(* AdvancedMouseSimulator: the trajectory of move_to. Pixels are integers, *)
(* the floats of the control points are fixed point in 1/100 of a pixel.   *)
(***************************************************************************)
\* the top-level move_to calls of one run
MaxMoves == 2

\* the targets callers ask for
Targets == {<<2, 3>>, <<30, 40>>, <<60, 80>>}

\* int(): truncation toward zero, of a / b with b > 0
TruncDiv(a, b) == IF a >= 0 THEN a \div b ELSE -((-a) \div b)

RECURSIVE ISqrtBetween(_, _, _)
\* the largest r in lo..hi with r * r <= n
ISqrtBetween(n, lo, hi) ==
    IF lo >= hi THEN lo
    ELSE LET mid == (lo + hi + 1) \div 2
         IN  IF mid * mid <= n THEN ISqrtBetween(n, mid, hi)
             ELSE ISqrtBetween(n, lo, mid - 1)
\* floor(math.sqrt(n))
ISqrt(n) == ISqrtBetween(n, 0, 40000)

\* dx*dx + dy*dy
Dist2(a, b) == (b[1] - a[1]) * (b[1] - a[1]) + (b[2] - a[2]) * (b[2] - a[2])

\* move_to returns at once under 2 units
TooClose_Short(a, b) == Dist2(a, b) < 2 * 2

\* distance < 5
TooClose(a, b) == Dist2(a, b) < 5 * 5

\* a route of exactly 50 units counts as long
LongRoute_AtLeast(a, b) == Dist2(a, b) >= 50 * 50

\* distance > 50
LongRoute(a, b) == Dist2(a, b) > 50 * 50

\* should_make_mistake: the outcomes of random.random() < base_prob +
\* fatigue_bonus, the probability in 1/(10 * FatigueScale)
MistakeProbability(p, f) == (10 * FatigueScale * (100 - p.v.accuracy.v)) \div 100 + f
MistakeOutcomes(p, f) ==
    {b \in BOOLEAN : /\ b => MistakeProbability(p, f) > 0
                     /\ ~b => MistakeProbability(p, f) < 10 * FatigueScale}

\* _perlin_noise at t = k/20 of its period (it has period 1), in 1/100:
\* sin(2 pi t) + sin(4 pi t) / 2 + sin(8 pi t) / 4
PerlinTable ==
    <<0, 84, 121, 114, 101, 100, 89, 48, -3, -22,
      0, 22, 3, -48, -89, -100, -101, -114, -121, -84>>
PerlinNoise(phase) == PerlinTable[(phase % 20) + 1]

\* the fractional parts of time_offset = random.random() * 1000, in 1/20
TimeOffsets == {0, 2, 13, 18}

\* tremor of sample i (from 0): _perlin_noise(time_offset + i * 0.1) * 2.
\* tremor_y reads the noise at + 100, a whole number of periods further, so
\* both axes get the same tremor.
Tremor(off, i) == 2 * PerlinNoise(off + 2 * i)

\* final_x, final_y = int(x + tremor_x), int(y + tremor_y)
Tremored(pt, off, i) ==
    <<TruncDiv(100 * pt[1] + Tremor(off, i), 100),
      TruncDiv(100 * pt[2] + Tremor(off, i), 100)>>

\* the draws of random.uniform(-pi/3, pi/3): <<cos, sin>> in 1/1000
AngleDraws == {<<500, -866>>, <<500, 866>>}
\* the draws of random.uniform(5, 25)
OvershootDraws == {5, 25}

\* sin(progress * pi) for progress = k / (n + 1), in 1/1000
SinPi(k, n) ==
    CASE n = 2 -> 866
      [] n = 3 -> IF k = 2 THEN 1000 ELSE 707
      [] OTHER -> 0

\* num_controls = max(2, int(distance / 100))
NumControls(a, b) == Max(2, ISqrt(Dist2(a, b)) \div 100)

\* distance, in 1/100
Dist100(a, b) == ISqrt(10000 * Dist2(a, b))

\* control point i (from 1) of _generate_control_points, in 1/100
ControlPoint(a, b, i, angle) ==
    LET n == NumControls(a, b)
        deviation == (SinPi(i, n) * Dist100(a, b) * 15) \div 100000
    IN  <<100 * a[1] + (100 * (b[1] - a[1]) * i) \div (n + 1) + (angle[1] * deviation) \div 1000,
          100 * a[2] + (100 * (b[2] - a[2]) * i) \div (n + 1) + (angle[2] * deviation) \div 1000>>

\* overshoot_point: overshoot_dist beyond end along atan2(dy, dx), in 1/100
OvershootPoint(a, b, odist) ==
    <<100 * b[1] + (10000 * odist * (b[1] - a[1])) \div Dist100(a, b),
      100 * b[2] + (10000 * odist * (b[2] - a[2])) \div Dist100(a, b)>>

Scaled(pt) == <<100 * pt[1], 100 * pt[2]>>
IntPoint(pt) == <<TruncDiv(pt[1], 100), TruncDiv(pt[2], 100)>>

\* _generate_control_points: start, the controls, the overshoot point if
\* any, end; angles draws one angle per control
GenerateControlPoints(a, b, overshoot, angles, odist) ==
    <<Scaled(a)>>
    \o [i \in 1..NumControls(a, b) |-> ControlPoint(a, b, i, angles[i])]
    \o (IF overshoot THEN <<OvershootPoint(a, b, odist)>> ELSE <<>>)
    \o <<Scaled(b)>>

\* one coordinate of the Catmull-Rom segment at t = i / s, times 2 s^3
CatmullRomNumerator(p0, p1, p2, p3, i, s) ==
    2 * p1 * s * s * s
    + (p2 - p0) * i * s * s
    + (2 * p0 - 5 * p1 + 4 * p2 - p3) * i * i * s
    + (3 * p1 - p0 - 3 * p2 + p3) * i * i * i

\* sample i of the segment p1..p2, truncated by int()
SplineSample(q0, q1, q2, q3, i, s) ==
    <<TruncDiv(CatmullRomNumerator(q0[1], q1[1], q2[1], q3[1], i, s), 200 * s * s * s),
      TruncDiv(CatmullRomNumerator(q0[2], q1[2], q2[2], q3[2], i, s), 200 * s * s * s)>>

\* _catmull_rom_spline: num_samples // segments samples of each segment of
\* the extended polygon, then the last point itself
CatmullRomSpline(points, num_samples) ==
    LET extended == <<points[1]>> \o points \o <<points[Len(points)]>>
        segments == Len(extended) - 3
        s == num_samples \div segments
    IN  [k \in 1..(segments * s) |->
            LET seg == (k - 1) \div s
                i == (k - 1) % s
            IN  SplineSample(extended[seg + 1], extended[seg + 2],
                             extended[seg + 3], extended[seg + 4], i, s)]
        \o <<IntPoint(points[Len(points)])>>

\* num_points = max(15, int(distance / 5))
NumPoints(a, b) == Max(15, ISqrt(Dist2(a, b)) \div 5)

\* the path of move_to from a to b
PathOf(a, b, overshoot, angles, odist) ==
    CatmullRomSpline(GenerateControlPoints(a, b, overshoot, angles, odist), NumPoints(a, b))

\* the frame of a move_to call that goes on to move: its path, the sample
\* it is at (from 1), and whether it has emitted that sample and sleeps
NewFrame(target, overshoot, path, off) ==
    [target |-> target, overshoot |-> overshoot, path |-> path,
     i |-> 1, off |-> off, sleeping |-> FALSE]

\* a generated trajectory as seen from outside: whether it carries an
\* overshoot point and which, whether should_make_mistake was called and
\* returned True, its first and last sample, its length, and
\* how many of its samples went to the device
NewLeg(target, overshoot, mistake, over, path) ==
    [overshoot |-> overshoot, mistake |-> mistake,
     over |-> IF overshoot THEN IntPoint(over) ELSE target,
     first |-> path[1], last |-> path[Len(path)], n |-> Len(path), emitted |-> 0]

NoCall ==
    [target |-> <<0, 0>>, start |-> <<0, 0>>, allow |-> FALSE, done |-> FALSE,
     allows |-> <<>>]

\* AdvancedMouseSimulator.__init__, no move_to yet
MouseInit ==
    /\ current_pos = <<0, 0>>
    /\ last_move = <<>>
    /\ frames = <<>>
    /\ call = NoCall
    /\ legs = <<>>
    /\ moves_made = 0

\* the simulator with its pointer at pos: (0, 0) after __init__, the centre
\* of the window once start() has read the window size
MouseStartedAt(pos) ==
    /\ current_pos = pos
    /\ last_move = <<>>
    /\ frames = <<>>
    /\ call = NoCall
    /\ legs = <<>>
    /\ moves_made = 0

\* (vp['width'] // 2, vp['height'] // 2)
Centre(vp) == <<vp[1] \div 2, vp[2] \div 2>>

\* the correction call allows an overshoot again
CorrectionAllow_Again == TRUE

\* await self.move_to(target, allow_overshoot=False)
CorrectionAllow == FALSE

\* move_to(target, allow) up to its loop, entered at pointer position from
\* with the calls in outer waiting for it: it returns at once (and so does
\* outer, whose last statement the call is), or it rolls the mistake,
\* generates the path and goes on to move
EnterMoveTo(from, target, allow, outer, legsSoFar) ==
    IF TooClose(from, target)
    THEN /\ frames' = <<>>
         /\ legs' = legsSoFar
    ELSE \E mistake \in MistakeOutcomes(personality, fatigue),
            a1 \in AngleDraws, a2 \in AngleDraws, a3 \in AngleDraws,
            odist \in OvershootDraws, off \in TimeOffsets :
            LET overshoot == allow /\ mistake /\ LongRoute(from, target)
                path == PathOf(from, target, overshoot, <<a1, a2, a3>>, odist)
            IN  /\ ~allow => ~mistake
                /\ ~overshoot => odist = 5
                /\ NumControls(from, target) < 3 => a3 = a1
                /\ frames' = Append(outer, NewFrame(target, overshoot, path, off))
                /\ legs' = Append(legsSoFar,
                                  NewLeg(target, overshoot, mistake,
                                         OvershootPoint(from, target, odist), path))

\* a caller calls move_to(target, allow_overshoot)
MoveToCall ==
    /\ frames = <<>>
    /\ moves_made < MaxMoves
    /\ \E target \in Targets, allow \in BOOLEAN :
        /\ EnterMoveTo(current_pos, target, allow, <<>>, <<>>)
        /\ call' = [target |-> target, start |-> current_pos, allow |-> allow,
                    done |-> TooClose(current_pos, target), allows |-> <<allow>>]
    /\ moves_made' = moves_made + 1
    /\ failure' = NoFailure
    /\ UNCHANGED <<insta, current_pos, last_move, scr, clk, fillerVars, behaviorVars, stateVars,
                   sessionVars>>

\* the innermost move_to sends the next sample, tremor added, to the
\* device and goes to sleep
MoveEmit ==
    /\ frames # <<>>
    /\ LET f == frames[Len(frames)]
       IN  /\ ~f.sleeping
           /\ f.i <= Len(f.path)
           /\ last_move' = Tremored(f.path[f.i], f.off, f.i - 1)
           /\ frames' = [frames EXCEPT ![Len(frames)].sleeping = TRUE]
           /\ legs' = [legs EXCEPT ![Len(legs)].emitted = @ + 1]
    /\ UNCHANGED <<insta, current_pos, call, moves_made, engineVars, behaviorVars, stateVars,
                   sessionVars>>

\* the sleep is over: current_pos takes the coordinates that were sent, and
\* the loop goes on; after the last sample move_to returns, or, if it
\* overshot, calls move_to(target, allow_overshoot=False)
MoveCommit ==
    /\ frames # <<>>
    /\ LET f == frames[Len(frames)]
           pos == Tremored(f.path[f.i], f.off, f.i - 1)
       IN  /\ f.sleeping
           /\ current_pos' = pos
           /\ IF f.i < Len(f.path)
              THEN /\ frames' = [frames EXCEPT ![Len(frames)].i = @ + 1,
                                               ![Len(frames)].sleeping = FALSE]
                   /\ UNCHANGED <<legs, call>>
              ELSE IF f.overshoot
              THEN /\ EnterMoveTo(pos, f.target, CorrectionAllow,
                                  [frames EXCEPT ![Len(frames)].i = @ + 1,
                                                 ![Len(frames)].sleeping = FALSE],
                                  legs)
                   /\ call' = [call EXCEPT !.done = TooClose(pos, f.target),
                                            !.allows = Append(@, CorrectionAllow)]
              ELSE /\ frames' = <<>>
                   /\ call' = [call EXCEPT !.done = TRUE]
                   /\ UNCHANGED legs
    /\ UNCHANGED <<insta, last_move, moves_made, engineVars, behaviorVars, stateVars, sessionVars>>

(***************************************************************************)
(* AdvancedScrollSimulator.scroll                                          *)
(***************************************************************************)
\* the scroll calls of one run
MaxScrolls == 1

\* the amounts callers ask for
ScrollAmounts == {0, 7, 200}
\* steps = random.randint(8, 15)
ScrollSteps == 8..15
\* the draws of random.randint(-3, 3) the model distinguishes
JitterDraws == {-3, 0, 3}
\* the draws of random.randint(10, 30)
InertiaDraws == {10, 30}

\* math.sin(i / (steps - 1) * math.pi) for i = 0 .. steps - 1, in 1/1000000
SinTable ==
    [steps \in ScrollSteps |->
        CASE steps = 8 -> <<0, 433884, 781831, 974928, 974928, 781831, 433884, 0>>
          [] steps = 9 -> <<0, 382683, 707107, 923880, 1000000, 923880, 707107, 382683, 0>>
          [] steps = 10 -> <<0, 342020, 642788, 866025, 984808, 984808, 866025, 642788,
                             342020, 0>>
          [] steps = 11 -> <<0, 309017, 587785, 809017, 951057, 1000000, 951057, 809017,
                             587785, 309017, 0>>
          [] steps = 12 -> <<0, 281733, 540641, 755750, 909632, 989821, 989821, 909632,
                             755750, 540641, 281733, 0>>
          [] steps = 13 -> <<0, 258819, 500000, 707107, 866025, 965926, 1000000, 965926,
                             866025, 707107, 500000, 258819, 0>>
          [] steps = 14 -> <<0, 239316, 464723, 663123, 822984, 935016, 992709, 992709,
                             935016, 822984, 663123, 464723, 239316, 0>>
          [] OTHER -> <<0, 222521, 433884, 623490, 781831, 900969, 974928, 1000000,
                        974928, 900969, 781831, 623490, 433884, 222521, 0>>]

RECURSIVE SumSeq(_)
\* sum(...)
SumSeq(q) == IF q = <<>> THEN 0 ELSE Head(q) + SumSeq(Tail(q))

\* the amount with the direction left out
SignedAmount_Unsigned(direction, amount) == amount

\* if direction == 'up': amount = -amount
SignedAmount(direction, amount) == IF direction = "up" THEN -amount ELSE amount

\* step_amounts = [int(amount * v / total) for v in velocities]
Shares(amount, steps) ==
    [i \in 1..steps |-> TruncDiv(amount * SinTable[steps][i], SumSeq(SinTable[steps]))]

\* the shares with the remainder dropped
StepAmounts_NoRemainder(amount, steps) == Shares(amount, steps)

\* the shares, then step_amounts[len(step_amounts)//2] += diff
StepAmounts(amount, steps) ==
    LET shares == Shares(amount, steps)
        diff == amount - SumSeq(shares)
    IN  [shares EXCEPT ![steps \div 2 + 1] = @ + diff]

\* the delta of a step with twice its jitter
Actual_Doubled(step_amount, jitter) == step_amount + 2 * jitter

\* actual = step_amount + random.randint(-3, 3)
Actual(step_amount, jitter) == step_amount + jitter

\* inertia = random.randint(10, 30) * (1 if amount > 0 else -1)
Inertia(amount, draw) == draw * (IF amount > 0 THEN 1 ELSE -1)

\* click_at is between its call and its return
ClickInFlight == clk.pc \in {"moving", "holding"}

\* the task that owns the device has no operation in flight
DeviceFree ==
    /\ frames = <<>>
    /\ ~scr.active
    /\ ~ClickInFlight
    /\ act = <<>>

\* an exception leaves the operation in flight and every HumanActions call
\* that awaits it: none of them has a try block
RaiseThrough ==
    /\ act' = <<>>
    /\ dis' = IF act # <<>> /\ act[1].name = "maybe_distraction"
              THEN [dis EXCEPT !.result = "raised"]
              ELSE dis

\* scroll(direction, amount, smooth) up to its first wheel event
ScrollEnter(direction, amount, smooth, steps) ==
    scr' = [active |-> TRUE, smooth |-> smooth, direction |-> direction,
            amount |-> SignedAmount(direction, amount),
            plan |-> IF smooth THEN StepAmounts(SignedAmount(direction, amount), steps)
                     ELSE <<SignedAmount(direction, amount)>>,
            i |-> 1, sum |-> 0, wheels |-> 0, inertia |-> 0, raised |-> FALSE,
            made |-> scr.made + 1]

\* a caller calls scroll
ScrollCall ==
    /\ DeviceFree
    /\ scr.made < MaxScrolls
    /\ \E direction \in {"down", "up"}, amount \in ScrollAmounts, smooth \in BOOLEAN,
          steps \in ScrollSteps :
        /\ ~smooth => steps = 8
        /\ ScrollEnter(direction, amount, smooth, steps)
    /\ failure' = NoFailure
    /\ UNCHANGED <<insta, clk, fillerVars, mouseVars, behaviorVars, stateVars, sessionVars>>

\* one page.mouse.wheel of the loop, or the only one of a scroll that is not
\* smooth, which then returns
ScrollWheel ==
    /\ scr.active
    /\ scr.i <= Len(scr.plan)
    /\ \E jitter \in JitterDraws :
        /\ ~scr.smooth => jitter = 0
        /\ scr' = [scr EXCEPT !.i = @ + 1,
                              !.sum = @ + Actual(scr.plan[scr.i], jitter),
                              !.wheels = @ + 1,
                              !.active = scr.smooth]
    /\ UNCHANGED <<insta, clk, failure, fillerVars, mouseVars, behaviorVars, stateVars, sessionVars>>

\* after the loop: with probability 0.3 one more wheel event, then return
ScrollFinish ==
    /\ scr.active
    /\ scr.i > Len(scr.plan)
    /\ \/ scr' = [scr EXCEPT !.active = FALSE]
       \/ \E draw \in InertiaDraws :
            scr' = [scr EXCEPT !.active = FALSE,
                               !.inertia = Inertia(scr.amount, draw),
                               !.sum = @ + Inertia(scr.amount, draw),
                               !.wheels = @ + 1]
    /\ UNCHANGED <<insta, clk, failure, fillerVars, mouseVars, behaviorVars, stateVars, sessionVars>>

\* the wheel event that raised is sent again
ScrollAfterRaise_Retry(s) == s

\* the exception leaves scroll, which has no try block
ScrollAfterRaise(s) == [s EXCEPT !.active = FALSE, !.raised = TRUE]

\* page.mouse.wheel raises
WheelFail ==
    /\ scr.active
    /\ scr' = ScrollAfterRaise(scr)
    /\ failure' = [failed |-> TRUE, op |-> "scroll", at |-> "wheel"]
    /\ RaiseThrough
    /\ UNCHANGED <<insta, clk, viewport, mouseVars, behaviorVars, stateVars, sessionVars>>

(***************************************************************************)
(* HumanActions: the filler actions and maybe_distraction. act holds the   *)
(* HumanActions calls in flight; each awaits the move_to or scroll, or the *)
(* filler, above it.                                                       *)
(***************************************************************************)
\* page.mouse.move raises: neither move_to nor click_at has a try block
MoveFail ==
    /\ frames # <<>>
    /\ ~frames[Len(frames)].sleeping
    /\ frames' = <<>>
    /\ failure' = [failed |-> TRUE,
                   op |-> IF ClickInFlight THEN "click_at" ELSE "move_to",
                   at |-> "move"]
    /\ clk' = IF ClickInFlight THEN [clk EXCEPT !.pc = "raised"] ELSE clk
    /\ RaiseThrough
    /\ UNCHANGED <<insta, current_pos, last_move, call, legs, moves_made, scr, viewport,
                   behaviorVars, stateVars, sessionVars>>

\* the four filler actions of HumanActions
Fillers == {"idle_movement", "look_around", "hesitate", "check_something_else"}

\* random.choice over all four fillers
DistractionChoices_WithHesitate == Fillers

\* the list maybe_distraction hands to random.choice
DistractionChoices == {"idle_movement", "look_around", "check_something_else"}

\* should_get_distracted: personality['curiosity'] * 0.1 + fatigue * 0.05,
\* in 1/(20 * FatigueScale)
DistractionProbability(p, f) == (20 * FatigueScale * p.v.curiosity.v) \div 1000 + f
\* a roll that ignores the probability
DistractionOutcomes_Any(p, f) == BOOLEAN

\* the outcomes of random.random() < probability, random.random() in [0, 1)
DistractionOutcomes(p, f) ==
    {b \in BOOLEAN : /\ b => DistractionProbability(p, f) > 0
                     /\ ~b => DistractionProbability(p, f) < 20 * FatigueScale}

\* the draws of (random.randint(-100, 100), random.randint(-50, 50))
IdleDraws == {<<-100, -50>>, <<100, 50>>}
\* the draws of (random.randint(-30, 30), random.randint(-20, 20))
HesitateDraws == {<<-30, -20>>, <<30, 20>>}
\* the draws of random.randint(2, 4)
GlanceCounts == {2, 3}
\* the draws of (random.randint(100, w - 100), random.randint(100, h - 100))
GlancePoints(vp) == {<<100, 100>>, <<vp[1] - 100, vp[2] - 100>>}
\* the draws of random.randint(100, 300)
CheckScrollAmounts == {100, 300}

\* (max(50, min(w - 50, x)), max(50, min(h - 50, y))) of current + draw
IdleTarget(pos, d, vp) ==
    <<Max(50, Min(vp[1] - 50, pos[1] + d[1])), Max(50, Min(vp[2] - 50, pos[2] + d[2]))>>

\* a HumanActions call in flight: its name and what it has left to do
ActFrame(name, left) == [name |-> name, left |-> left]

\* await self.mouse.move_to(target) of a filler, the calls in stack
\* awaiting it
FillerMoveTo(target, stack) ==
    /\ EnterMoveTo(current_pos, target, TRUE, <<>>, <<>>)
    /\ call' = [target |-> target, start |-> current_pos, allow |-> TRUE,
                done |-> TooClose(current_pos, target), allows |-> <<TRUE>>]
    /\ moves_made' = moves_made + 1
    /\ act' = stack
    /\ scr' = scr

\* await scroller.scroll(direction, amount) of check_something_else
FillerScroll(direction, stack) ==
    /\ \E amount \in CheckScrollAmounts, steps \in ScrollSteps :
        ScrollEnter(direction, amount, TRUE, steps)
    /\ act' = stack
    /\ UNCHANGED <<frames, legs, call, moves_made>>

\* look_around up to its first move_to
LookAroundStart(stack) ==
    \E n \in GlanceCounts, pt \in GlancePoints(viewport) :
        FillerMoveTo(pt, Append(stack, ActFrame("look_around", n - 1)))

\* the filler `name` up to its first await of the device, the calls in
\* stack awaiting it
StartFiller(name, stack) ==
    \/ /\ name = "idle_movement"
       /\ \E d \in IdleDraws :
            FillerMoveTo(IdleTarget(current_pos, d, viewport),
                         Append(stack, ActFrame(name, 0)))
    \/ /\ name = "hesitate"
       /\ \E d \in HesitateDraws :
            FillerMoveTo(<<current_pos[1] + d[1], current_pos[2] + d[2]>>,
                         Append(stack, ActFrame(name, 0)))
    \/ /\ name = "look_around"
       /\ LookAroundStart(stack)
    \/ /\ name = "check_something_else"
       /\ \/ FillerScroll("up", Append(stack, ActFrame(name, 1)))
          \/ LookAroundStart(Append(stack, ActFrame(name, 0)))

\* the device operation or the filler that the innermost HumanActions
\* call awaits has returned
Awaited ==
    /\ act # <<>>
    /\ frames = <<>>
    /\ ~scr.active

\* the HumanActions calls that await the innermost one
Below == SubSeq(act, 1, Len(act) - 1)

\* a filler has nothing left to do and returns to the call that awaits it
FillerReturn ==
    /\ Awaited
    /\ act[Len(act)].name # "maybe_distraction"
    /\ act[Len(act)].left = 0
    /\ act' = Below
    /\ UNCHANGED <<insta, mouseVars, actuatorVars, viewport, dis, behaviorVars, stateVars,
                   sessionVars>>

\* look_around goes on to its next glance
LookAroundNext ==
    /\ Awaited
    /\ act[Len(act)].name = "look_around"
    /\ act[Len(act)].left > 0
    /\ \E pt \in GlancePoints(viewport) :
        FillerMoveTo(pt, Append(Below, ActFrame("look_around", act[Len(act)].left - 1)))
    /\ UNCHANGED <<insta, current_pos, last_move, clk, failure, viewport, dis, behaviorVars,
                   stateVars, sessionVars>>

\* check_something_else scrolls back down after its scroll up
CheckScrollBack ==
    /\ Awaited
    /\ act[Len(act)].name = "check_something_else"
    /\ act[Len(act)].left > 0
    /\ FillerScroll("down", Append(Below, ActFrame("check_something_else", 0)))
    /\ UNCHANGED <<insta, current_pos, last_move, clk, failure, viewport, dis, behaviorVars,
                   stateVars, sessionVars>>

\* the filler maybe_distraction awaited has returned: return True
DistractionReturn ==
    /\ Awaited
    /\ act[Len(act)].name = "maybe_distraction"
    /\ act' = <<>>
    /\ dis' = [dis EXCEPT !.result = "true"]
    /\ UNCHANGED <<insta, mouseVars, actuatorVars, viewport, behaviorVars, stateVars, sessionVars>>

\* a caller calls idle_movement
IdleMovementCall ==
    /\ DeviceFree
    /\ StartFiller("idle_movement", <<>>)
    /\ failure' = NoFailure
    /\ UNCHANGED <<insta, current_pos, last_move, clk, viewport, dis, behaviorVars, stateVars,
                   sessionVars>>

\* a caller calls maybe_distraction: the roll, and if it succeeds the
\* choice and the chosen filler up to its first await
MaybeDistractionCall ==
    /\ DeviceFree
    /\ \E distracted \in DistractionOutcomes(personality, fatigue) :
        IF distracted
        THEN \E action \in DistractionChoices :
                /\ StartFiller(action, <<ActFrame("maybe_distraction", 0)>>)
                /\ dis' = [calls |-> dis.calls + 1, result |-> "none",
                           invoked |-> <<action>>, candidates |-> DistractionChoices]
        ELSE /\ dis' = [calls |-> dis.calls + 1, result |-> "false",
                        invoked |-> <<>>, candidates |-> {}]
             /\ UNCHANGED <<frames, legs, call, moves_made, scr, act>>
    /\ failure' = NoFailure
    /\ UNCHANGED <<insta, current_pos, last_move, clk, viewport, behaviorVars, stateVars,
                   sessionVars>>

(***************************************************************************)
(* AdvancedMouseSimulator.click_at and the task it creates for             *)
(* _micro_movement. clk.pc: "moving" from the call to the end of the pause *)
(* before the click, "holding" between press and release, "returned",      *)
(* "raised". clk.task: "none", "created", "done", "raised".                 *)
(***************************************************************************)
\* the click_at calls of one run
MaxClicks == 1

\* the targets callers ask for
ClickTargets == {<<2, 3>>, <<60, 80>>}
\* the draws of (random.randint(-5, 5), random.randint(-5, 5))
VariationDraws == {<<-5, -5>>, <<5, 5>>}
\* the draws of (random.randint(-2, 2), random.randint(-2, 2))
NudgeDraws == {<<-2, -2>>, <<2, 2>>}

\* the button is pressed without awaiting move_to
MoveToReturned_NotAwaited == TRUE

\* await self.move_to(actual_target) has returned
MoveToReturned == frames = <<>>

\* a caller calls click_at(target): the varied target, then move_to up to
\* its loop
ClickAtCall ==
    /\ DeviceFree
    /\ clk.task # "created"
    /\ clk.made < MaxClicks
    /\ \E target \in ClickTargets, v \in VariationDraws :
        LET actual_target == <<target[1] + v[1], target[2] + v[2]>>
        IN  /\ EnterMoveTo(current_pos, actual_target, TRUE, <<>>, <<>>)
            /\ call' = [target |-> actual_target, start |-> current_pos, allow |-> TRUE,
                        done |-> TooClose(current_pos, actual_target),
                        allows |-> <<TRUE>>]
    /\ moves_made' = moves_made + 1
    /\ clk' = [pc |-> "moving", presses |-> 0, releases |-> 0, task |-> "none",
               nudges |-> 0, made |-> clk.made + 1, before |-> last_move,
               down_at |-> <<>>, up_at |-> <<>>]
    /\ failure' = NoFailure
    /\ UNCHANGED <<insta, current_pos, last_move, scr, fillerVars, behaviorVars, stateVars,
                   sessionVars>>

\* the pause before the click is over: with probability 0.1 the task of
\* _micro_movement is created, then page.mouse.down()
ClickPress ==
    /\ clk.pc = "moving"
    /\ MoveToReturned
    /\ \E jitter \in BOOLEAN :
        clk' = [clk EXCEPT !.pc = "holding",
                           !.presses = @ + 1,
                           !.down_at = last_move,
                           !.task = IF jitter THEN "created" ELSE "none"]
    /\ UNCHANGED <<insta, mouseVars, scr, failure, fillerVars, behaviorVars, stateVars, sessionVars>>

\* page.mouse.down() raises, the task created or not
PressFail ==
    /\ clk.pc = "moving"
    /\ MoveToReturned
    /\ \E jitter \in BOOLEAN :
        clk' = [clk EXCEPT !.pc = "raised",
                           !.task = IF jitter THEN "created" ELSE "none"]
    /\ failure' = [failed |-> TRUE, op |-> "click_at", at |-> "down"]
    /\ UNCHANGED <<insta, mouseVars, scr, fillerVars, behaviorVars, stateVars, sessionVars>>

\* the hold time is over: page.mouse.up(), and click_at returns
ClickRelease ==
    /\ clk.pc = "holding"
    /\ clk' = [clk EXCEPT !.pc = "returned", !.releases = @ + 1, !.up_at = last_move]
    /\ UNCHANGED <<insta, mouseVars, scr, failure, fillerVars, behaviorVars, stateVars, sessionVars>>

\* page.mouse.up() raises
ReleaseFail ==
    /\ clk.pc = "holding"
    /\ clk' = [clk EXCEPT !.pc = "raised"]
    /\ failure' = [failed |-> TRUE, op |-> "click_at", at |-> "up"]
    /\ UNCHANGED <<insta, mouseVars, scr, fillerVars, behaviorVars, stateVars, sessionVars>>

\* the task of _micro_movement after its sleep: it reads current_pos and
\* sends the nudged position to the device; current_pos is not assigned
MicroMovement ==
    /\ clk.task = "created"
    /\ \E n \in NudgeDraws :
        last_move' = <<current_pos[1] + n[1], current_pos[2] + n[2]>>
    /\ clk' = [clk EXCEPT !.task = "done", !.nudges = @ + 1]
    /\ UNCHANGED <<insta, current_pos, frames, call, legs, moves_made, scr, failure, fillerVars,
                   behaviorVars, stateVars, sessionVars>>

\* page.mouse.move raises in the task: _micro_movement has no try block and
\* nothing awaits the task, so the task ends with an exception that is
\* never retrieved
MicroMovementFail ==
    /\ clk.task = "created"
    /\ clk' = [clk EXCEPT !.task = "raised"]
    /\ UNCHANGED <<insta, mouseVars, scr, failure, fillerVars, behaviorVars, stateVars, sessionVars>>

(***************************************************************************)
(* InstagramHumanBot (instagram_human.py): mouse_pos and the pointer of    *)
(* the device under human_move, human_click, human_scroll and              *)
(* human_double_tap. page.mouse.click(x, y) moves the pointer to (x, y)    *)
(* before it presses.                                                      *)
(***************************************************************************)
\* the calls of one run
MaxInstaCalls == 2

\* InstagramConfig.viewport_width, viewport_height
viewport_width == 430
viewport_height == 932

\* the points callers ask for
InstaTargets == {<<100, 200>>, <<300, 700>>}

\* the draws of one control point: random.uniform(0.2, 0.4) or (0.6, 0.8)
\* in 1/10 and random.randint(-30, 30), for x and for y
Ctrl1Draws == {<<2, -30, 4, 30>>, <<4, 30, 2, -30>>}
Ctrl2Draws == {<<6, -30, 8, 30>>, <<8, 30, 6, -30>>}

\* a control point in 1/10: start + d * uniform + randint on each axis
CtrlPoint(start, end, c) ==
    <<10 * start[1] + (end[1] - start[1]) * c[1] + 10 * c[2],
      10 * start[2] + (end[2] - start[2]) * c[3] + 10 * c[4]>>

\* one coordinate of the cubic Bezier curve at t = i / n, the points in
\* 1/10, truncated by int()
BezierCoordinate(p0, p1, p2, p3, i, n) ==
    TruncDiv((n - i) * (n - i) * (n - i) * p0 + 3 * (n - i) * (n - i) * i * p1
             + 3 * (n - i) * i * i * p2 + i * i * i * p3,
             10 * n * n * n)

\* bezier_point
BezierPoint(p0, p1, p2, p3, i, n) ==
    <<BezierCoordinate(p0[1], p1[1], p2[1], p3[1], i, n),
      BezierCoordinate(p0[2], p1[2], p2[2], p3[2], i, n)>>

\* generate_human_path: num_points + 1 points of the curve from start to
\* end, each moved by the jitter random.randint(-1, 1) drawn for it
GenerateHumanPath(start, end, c1, c2, num_points, jitter) ==
    [k \in 1..(num_points + 1) |->
        LET pt == BezierPoint(<<10 * start[1], 10 * start[2]>>, CtrlPoint(start, end, c1),
                              CtrlPoint(start, end, c2), <<10 * end[1], 10 * end[2]>>,
                              k - 1, num_points)
        IN  <<pt[1] + jitter[k][1], pt[2] + jitter[k][2]>>]

\* the jitters of a path: one draw for the points before the last, one for
\* the last
PathJitters(num_points, inner, last) ==
    [k \in 1..(num_points + 1) |-> IF k <= num_points THEN inner ELSE last]

\* coordinates as the device takes them, in 1/100
Sent(x, y) == <<100 * x, 100 * y>>

\* human_move(x, y) up to its loop, and what the caller does when it
\* returns
HumanMoveEnter(target, after) ==
    \E c1 \in Ctrl1Draws, c2 \in Ctrl2Draws, num_points \in {12, 25},
       inner \in {<<1, -1>>}, last \in {<<-1, -1>>, <<0, 0>>, <<1, 1>>} :
        insta' = [insta EXCEPT
                     !.pc = "moving",
                     !.path = GenerateHumanPath(insta.mouse_pos, target, c1, c2, num_points,
                                                PathJitters(num_points, inner, last)),
                     !.i = 1,
                     !.target = target,
                     !.after = after,
                     !.calls = @ + 1]

\* the frame of every step of InstagramHumanBot
InstaFrame == UNCHANGED <<behaviorVars, stateVars, sessionVars, mouseVars, engineVars>>

\* a caller calls human_move(x, y)
HumanMoveCall ==
    /\ insta.pc = "idle"
    /\ insta.calls < MaxInstaCalls
    /\ \E target \in InstaTargets : HumanMoveEnter(target, "return")
    /\ InstaFrame

\* human_click(x=x, y=y), or with a selector whose box gives (x, y): the
\* human_move it starts with; a selector that matches nothing returns False
HumanClickCall ==
    /\ insta.pc = "idle"
    /\ insta.calls < MaxInstaCalls
    /\ \/ \E target \in InstaTargets : HumanMoveEnter(target, "click")
       \/ insta' = [insta EXCEPT !.calls = @ + 1]
    /\ InstaFrame

\* human_double_tap(): the point near the centre of the window, then the
\* human_move it starts with
HumanDoubleTapCall ==
    /\ insta.pc = "idle"
    /\ insta.calls < MaxInstaCalls
    /\ \E dx \in {-50, 50}, dy \in {50} :
        HumanMoveEnter(<<viewport_width \div 2 + dx, viewport_height \div 2 + dy>>,
                       "double_tap")
    /\ InstaFrame

\* one page.mouse.move of the loop of human_move
HumanMoveStep ==
    /\ insta.pc = "moving"
    /\ insta.i <= Len(insta.path)
    /\ insta' = [insta EXCEPT !.sent = Sent(insta.path[insta.i][1], insta.path[insta.i][2]),
                              !.i = @ + 1]
    /\ InstaFrame

\* after the loop: self.mouse_pos = (x, y), and human_move returns to its
\* caller
HumanMoveEnd ==
    /\ insta.pc = "moving"
    /\ insta.i > Len(insta.path)
    /\ insta' = [insta EXCEPT !.mouse_pos = insta.target,
                              !.pc = CASE insta.after = "click" -> "click"
                                       [] insta.after = "double_tap" -> "tap1"
                                       [] OTHER -> "idle"]
    /\ InstaFrame

\* await self.page.mouse.click(x, y) of human_click, of human_double_tap
\* (twice)
HumanPress ==
    /\ insta.pc \in {"click", "tap1", "tap2"}
    /\ insta' = [insta EXCEPT !.sent = Sent(insta.target[1], insta.target[2]),
                              !.pc = IF insta.pc = "tap1" THEN "tap2" ELSE "idle"]
    /\ InstaFrame

\* start_y and end_y of the swipe, in 1/100: viewport_height * 0.7 and * 0.3
SwipeStartY(direction) ==
    IF direction = "down" THEN viewport_height * 70 ELSE viewport_height * 30
SwipeEndY(direction) ==
    IF direction = "down" THEN viewport_height * 30 ELSE viewport_height * 70

\* human_scroll(direction): page.mouse.move(start_x, start_y), then down
HumanScrollCall ==
    /\ insta.pc = "idle"
    /\ insta.calls < MaxInstaCalls
    /\ \E direction \in {"down", "up"}, dx \in {-30, 30}, steps \in {5, 10} :
        insta' = [insta EXCEPT
                     !.pc = "swipe",
                     !.start = <<100 * (viewport_width \div 2 + dx), SwipeStartY(direction)>>,
                     !.end_y = SwipeEndY(direction),
                     !.steps = steps,
                     !.i = 1,
                     !.sent = <<100 * (viewport_width \div 2 + dx), SwipeStartY(direction)>>,
                     !.calls = @ + 1]
    /\ InstaFrame

\* one page.mouse.move(start_x + random.randint(-5, 5), current_y) of the
\* swipe
HumanScrollStep ==
    /\ insta.pc = "swipe"
    /\ insta.i <= insta.steps
    /\ \E r \in {-5, 5} :
        insta' = [insta EXCEPT
                     !.sent = <<insta.start[1] + 100 * r,
                                insta.start[2]
                                + ((insta.end_y - insta.start[2]) * insta.i) \div insta.steps>>,
                     !.i = @ + 1]
    /\ InstaFrame

\* after the loop: page.mouse.up(), and human_scroll returns; mouse_pos is
\* not assigned
HumanScrollEnd ==
    /\ insta.pc = "swipe"
    /\ insta.i > insta.steps
    /\ insta' = [insta EXCEPT !.pc = "idle"]
    /\ InstaFrame

(***************************************************************************)
(* SpecFatigue: one HumanBehavior, the clock and update_fatigue calls      *)
(***************************************************************************)
Tick ==
    \E d \in TickSteps :
        /\ now + d <= MaxMinutes
        /\ now' = now + d
        /\ UNCHANGED <<insta, engineVars, mouseVars, session_start, fatigue, actions_count, stateVars, sessionVars>>

UpdateFatigue ==
    /\ actions_count < MaxActionsCount
    /\ UpdateFatigueEffect
    /\ UNCHANGED <<insta, engineVars, mouseVars, now, session_start, stateVars, sessionVars>>

FatigueInit == BehaviorInit /\ StateIdle /\ SessionIdle /\ MouseInit /\ EngineIdle

FatigueNext == Tick \/ UpdateFatigue

SpecFatigue == FatigueInit /\ [][FatigueNext]_vars

\* C4: across update_fatigue calls with a non-decreasing clock the fatigue
\* never decreases and always lies in [0, 0.8].
C4_FatigueMonotoneBounded ==
    /\ [](fatigue >= 0 /\ fatigue <= (8 * FatigueScale) \div 10)
    /\ [][fatigue' >= fatigue]_vars

\* an update_fatigue call has raised the fatigue, and a later state holds
\* the 0.8 ceiling itself
C4_Witness ==
    /\ actions_count > 20
    /\ now - session_start > 20
    /\ fatigue = (8 * FatigueScale) \div 10

\* C19: the time component of the fatigue first reaches its cap 0.5 at 60
\* minutes of session and the count component first reaches its cap 0.3 at
\* 100 actions.
C19_CapsAtSixtyAndHundred ==
    /\ TimeFatigue(now - session_start) = FatigueScale \div 2 =>
           now - session_start >= 60
    /\ ActionFatigue(actions_count) = (3 * FatigueScale) \div 10 =>
           actions_count >= 100

(***************************************************************************)
(* SpecState: runs of the bot on one state file                            *)
(***************************************************************************)
\* a unit of work of a run that will be stopped
StateProcessUrl ==
    /\ stats.total < MaxStateUnits
    /\ ProcessUrl

StateNext == Construct \/ Start \/ StateProcessUrl \/ Stop

StateSpecInit == BehaviorInit /\ StateInit /\ SessionIdle /\ MouseInit /\ EngineIdle

SpecState == StateSpecInit /\ [][StateNext]_vars

\* C5: the personality of a constructed bot, freshly sampled or restored
\* from a record of any content, has all five traits within their bounds.
C5_TraitsInBounds == pc # "none" => InBounds(personality)

\* C6: a bot constructed on a malformed record keeps its freshly sampled
\* personality, and neither start's log line nor a decision rule raises
\* on it.
C6_MalformedIgnored ==
    (pc # "none" /\ loadedMalformed) =>
        /\ personality = sampled
        /\ ~LogPersonalityRaises(personality)
        /\ ~MistakeRuleRaises(personality)
        /\ ~DistractionRuleRaises(personality)

\* C7: a run constructed after a run whose start() completed and whose
\* stop() was called has the personality that run used.
C7_RoundTrip ==
    (pc = "constructed" /\ prev.valid /\ prev.started) =>
        personality = prev.personality

StopAfterStart == pc \in {"stopped", "stopRaised"} /\ prev.started

\* C25: whenever stop() is called after start(), it runs to its end: the
\* browser is closed and the driver is stopped, even if writing the state
\* file fails.
C25_StopReleasesResources == StopAfterStart => pc = "stopped"

(***************************************************************************)
(* SpecSession: one started bot, its clock and its callers                 *)
(***************************************************************************)
SessionInit == BehaviorInit /\ StateIdle /\ SessionIdle /\ MouseInit /\ EngineIdle

SessionNext == ProcessUrlsCall \/ LoopIteration \/ LoopEnd \/ ProcessUrl \/ SessionTick

SpecSession == SessionInit /\ [][SessionNext]_vars

\* C9: once a session-limit check of process_urls has failed, no step of
\* the run dispatches a URL, starts a unit of work or emits a device call.
C9_TerminatedAbsorbing ==
    limitFailed => (~step.dispatch /\ ~step.unit /\ step.device = 0)

\* after the failed check process_urls is called again and has URLs to go
C9_Witness ==
    /\ limitFailed
    /\ spc = "loop"
    /\ Len(urls) = MaxUrls
    /\ Head(urls) = "reel"

\* C10 as stated: no unit of work starts while HumanBehavior.actions_count
\* is at or above max_actions_per_session.
C10_ActionsCountCeiling ==
    [][step'.unit => actions_count < max_actions_per_session]_vars

\* C10 as amended: no unit of work starts while stats['total'], the number
\* of units started, is at or above max_actions_per_session; the counter of
\* update_fatigue is not consulted.
C10_TotalCeiling ==
    [][step'.unit => stats.total < max_actions_per_session]_vars

\* the last unit the ceiling allows has run, with actions_count already
\* beyond the ceiling when it started
C10_Witness ==
    /\ step.unit
    /\ stats.total = max_actions_per_session
    /\ actions_count >= max_actions_per_session + MaxWatchIters

\* C24: the counter of processed units never exceeds the action ceiling:
\* stats['total'] <= max_actions_per_session in every state of a run,
\* whatever calls of process_urls and process_url are made.
C24_TotalNeverExceedsCeiling == stats.total <= max_actions_per_session

\* the ceiling is reached within the time limit and a check of process_urls
\* has failed on it
C24_Witness ==
    /\ stats.total = max_actions_per_session
    /\ ~TimeLimitReached(stats, now)
    /\ limitFailed

\* C26: a failure while processing one URL is isolated: the exception is
\* caught inside process_reel / process_post, stats['errors'] goes up by
\* exactly one, process_url returns false, and process_urls goes on with
\* the next URL; errors <= total and likes <= total in every state.
C26_FailureIsolated ==
    /\ [](stats.errors <= stats.total /\ stats.likes <= stats.total)
    /\ [][/\ step'.caught =>
               /\ step'.unit
               /\ stats'.errors = stats.errors + 1
               /\ stats'.total = stats.total + 1
               /\ ~step'.returned
               /\ pc' = pc
               /\ step'.dispatch => (spc' = "loop" /\ urls' = Tail(urls))
          /\ stats'.errors # stats.errors => step'.caught]_vars

\* the first URL of a list of two has failed in its try block, after its
\* like, and the second is still to go
C26_Witness ==
    /\ step.caught
    /\ step.dispatch
    /\ spc = "loop"
    /\ Len(urls) = 1
    /\ stats.errors = 1
    /\ stats.likes = 1

(***************************************************************************)
(* SpecMouse: one AdvancedMouseSimulator and the callers of move_to        *)
(***************************************************************************)
MouseSpecInit == BehaviorInit /\ StateIdle /\ SessionIdle /\ MouseInit /\ EngineIdle

MouseNext == MoveToCall \/ MoveEmit \/ MoveCommit

SpecMouse == MouseSpecInit /\ [][MouseNext]_vars

\* C1: when a move_to over a distance of 5 or more has completed, the last
\* device move and current_pos are the requested target exactly.
C1_EndsAtTarget ==
    (moves_made > 0 /\ call.done /\ Dist2(call.start, call.target) >= 25) =>
        /\ last_move = call.target
        /\ current_pos = call.target

\* C2: a completed move_to whose first trajectory overshot has generated
\* two trajectories: the first ends at the overshoot point beyond the
\* target, the second, without overshoot, went to the device sample by
\* sample from there and ended at the target exactly.
C2_OvershootThenCorrection ==
    (moves_made > 0 /\ call.done /\ legs # <<>> /\ legs[1].overshoot) =>
        /\ Len(legs) = 2
        /\ legs[1].last = legs[1].over
        /\ legs[1].over # call.target
        /\ ~legs[2].overshoot
        /\ legs[2].emitted = legs[2].n
        /\ legs[2].emitted > 0
        /\ last_move = call.target
        /\ current_pos = call.target

\* C3 as stated: the path produced for a move over a distance under 5 has
\* exactly one sample.
C3_OneSample ==
    (moves_made > 0 /\ call.done /\ Dist2(call.start, call.target) < 25) =>
        /\ Len(legs) = 1
        /\ legs[1].n = 1

\* C3 as amended: a move_to over a distance under 5 returns at once: it
\* produces no path (zero samples), sends nothing to the device and leaves
\* current_pos where it was.
C3_NoPath ==
    (moves_made > 0 /\ Dist2(call.start, call.target) < 25) =>
        /\ call.done
        /\ frames = <<>>
        /\ legs = <<>>
        /\ current_pos = call.start

\* a completed call to a target under 5 units from the pointer, not on it
C3_Witness ==
    /\ moves_made > 0
    /\ call.done
    /\ call.start # call.target
    /\ Dist2(call.start, call.target) < 25

\* C23: a trajectory carries an overshoot control point only if
\* allow_overshoot is true, should_make_mistake returned True and the route
\* is longer than 50 units; the correction leg never carries one.
C23_OvershootOnlyIfAllThree ==
    \A k \in 1..Len(legs) :
        legs[k].overshoot =>
            /\ k = 1
            /\ call.allow
            /\ legs[k].mistake
            /\ Dist2(call.start, call.target) > 50 * 50

\* a call that allowed the overshoot and rolled the mistake has sent
\* samples of a trajectory with an overshoot point to the device
C23_Witness ==
    /\ legs # <<>>
    /\ legs[1].overshoot
    /\ call.allow
    /\ legs[1].mistake
    /\ legs[1].emitted > 0

\* a move_to of this run has returned after its correction call
CorrectionReturned == call.done /\ Len(call.allows) = 2

\* C22: for every route with d >= 5, with or without an overshoot control
\* point, the interpolated path of the call (and so the device moves of one
\* leg of move_to) has max(15, floor(d / 5)) samples.
C22_SampleCount ==
    legs # <<>> =>
        legs[1].n = Max(15, ISqrt(Dist2(call.start, call.target)) \div 5)

(***************************************************************************)
(* SpecMoveTo: SpecMouse on an event loop that resumes the move_to that    *)
(* awaits the device or the end of its sleep                               *)
(***************************************************************************)
SpecMoveTo ==
    MouseSpecInit /\ [][MouseNext]_vars /\ WF_vars(MoveEmit) /\ WF_vars(MoveCommit)

\* C27: move_to always terminates and nests at most two deep: the
\* correction call is made with allow_overshoot=False and makes no further
\* call, so one top-level move_to emits the samples of at most two finite
\* paths.
C27_TerminatesTwoDeep ==
    /\ [](/\ Len(call.allows) <= 2
          /\ Len(call.allows) = 2 => ~call.allows[2]
          /\ Len(frames) <= 2
          /\ Len(legs) <= 2
          /\ \A k \in 1..Len(legs) : legs[k].emitted <= legs[k].n)
    /\ (frames # <<>>) ~> (frames = <<>>)

\* a move_to that overshot has made its correction call and returned
C27_Witness ==
    /\ CorrectionReturned
    /\ legs # <<>>
    /\ legs[1].overshoot
    /\ legs[1].emitted = legs[1].n

(***************************************************************************)
(* SpecScroll: one AdvancedScrollSimulator and the callers of scroll       *)
(***************************************************************************)
ScrollSpecInit == BehaviorInit /\ StateIdle /\ SessionIdle /\ MouseInit /\ EngineIdle

ScrollNext == ScrollCall \/ ScrollWheel \/ ScrollFinish \/ WheelFail

SpecScroll == ScrollSpecInit /\ [][ScrollNext]_vars

\* a scroll call has returned to its caller
ScrollReturned == scr.made > 0 /\ ~scr.active /\ ~scr.raised

\* C11 as stated: the wheel deltas a smooth scroll emitted sum to exactly
\* the signed requested amount.
C11_DeltasSumToAmount ==
    (ScrollReturned /\ scr.smooth) => scr.sum = scr.amount

\* C11 as amended: a smooth scroll emits one wheel event per step and at
\* most one inertia event of 10..30 in the direction of the scroll; the
\* deltas sum to the signed amount plus the jitter of each step (within
\* -3..3) plus the inertia, so the sum is within 3 * steps of amount +
\* inertia and is the amount itself only if the jitters and the inertia
\* cancel.
C11_DeltasSumWithinJitter ==
    (ScrollReturned /\ scr.smooth) =>
        /\ scr.wheels = Len(scr.plan) + (IF scr.inertia = 0 THEN 0 ELSE 1)
        /\ scr.inertia # 0 =>
               /\ (scr.inertia > 0) = (scr.amount > 0)
               /\ Max(scr.inertia, -scr.inertia) \in 10..30
        /\ scr.sum - scr.amount - scr.inertia <= 3 * Len(scr.plan)
        /\ scr.amount + scr.inertia - scr.sum <= 3 * Len(scr.plan)

\* scroll('down', 200), smooth, has returned having emitted deltas that do
\* not sum to 200, without an inertia event
C11_Witness ==
    /\ ScrollReturned
    /\ scr.smooth
    /\ scr.amount = 200
    /\ scr.inertia = 0
    /\ scr.sum # scr.amount

\* C21: whenever a smooth scroll appends the inertia wheel event, its delta
\* is positive for 'down' and negative for 'up', for every requested amount
\* including 0.
C21_InertiaSameDirection ==
    (scr.made > 0 /\ scr.smooth /\ scr.inertia # 0) =>
        /\ scr.direction = "down" => scr.inertia > 0
        /\ scr.direction = "up" => scr.inertia < 0

\* one wheel event of the loop of a smooth scroll is emitted in this step
StepEmitted ==
    /\ scr.active /\ scr.smooth /\ scr.i <= Len(scr.plan)
    /\ scr'.i = scr.i + 1

\* C29 as stated: no per-step wheel delta of a smooth scroll points against
\* the requested direction: >= 0 for 'down', <= 0 for 'up'.
C29_NoDeltaAgainstDirection ==
    [][StepEmitted =>
          /\ scr.direction = "down" => scr'.sum - scr.sum >= 0
          /\ scr.direction = "up" => scr'.sum - scr.sum <= 0]_vars

\* C29 as amended: the step amounts before the jitter never point against
\* the requested direction, and an emitted per-step delta is the step
\* amount plus a jitter within -3..3, so it is >= -3 for 'down' and <= 3
\* for 'up'.
C29_DeltaAgainstDirectionWithinJitter ==
    [][StepEmitted =>
          /\ scr.direction = "down" =>
                 /\ scr.plan[scr.i] >= 0
                 /\ scr'.sum - scr.sum >= -3
          /\ scr.direction = "up" =>
                 /\ scr.plan[scr.i] <= 0
                 /\ scr'.sum - scr.sum <= 3
          /\ scr'.sum - scr.sum - scr.plan[scr.i] \in -3..3]_vars

\* the first step of scroll('down', 200), smooth, has emitted the delta -3
C29_Witness ==
    /\ scr.smooth
    /\ scr.direction = "down"
    /\ scr.amount = 200
    /\ scr.wheels = 1
    /\ scr.sum = -3

(***************************************************************************)
(* SpecStepAmounts: the step amounts of a smooth scroll, for every amount  *)
(* and every number of steps                                               *)
(***************************************************************************)
\* the largest amount asked for: random.randint(150, 400)
MaxScrollAmount == 400

\* the step amounts of scroll(direction, amount) with its steps draw
ComputeStepAmounts ==
    /\ scr.made = 0
    /\ \E direction \in {"down", "up"}, amount \in 1..MaxScrollAmount, steps \in ScrollSteps :
        scr' = [NoScroll EXCEPT !.smooth = TRUE,
                                !.direction = direction,
                                !.amount = SignedAmount(direction, amount),
                                !.plan = StepAmounts(SignedAmount(direction, amount), steps),
                                !.made = 1]
    /\ UNCHANGED <<insta, clk, failure, fillerVars, mouseVars, behaviorVars, stateVars, sessionVars>>

StepAmountsInit == BehaviorInit /\ StateIdle /\ SessionIdle /\ MouseInit /\ EngineIdle

SpecStepAmounts == StepAmountsInit /\ [][ComputeStepAmounts]_vars

\* C20: for every number of steps in 8..15 and every signed amount the
\* step amounts of a smooth scroll, before the jitter, are the truncated
\* shares with the remainder added to the middle step, and sum to exactly
\* the signed amount.
C20_StepAmountsSum ==
    (scr.made > 0 /\ scr.smooth) =>
        /\ Len(scr.plan) \in 8..15
        /\ \A i \in 1..Len(scr.plan) :
               i # Len(scr.plan) \div 2 + 1 =>
                   scr.plan[i] = Shares(scr.amount, Len(scr.plan))[i]
        /\ SumSeq(scr.plan) = scr.amount

\* an upward scroll in 15 steps whose truncated shares leave a remainder
C20_Witness ==
    /\ scr.made > 0
    /\ scr.smooth
    /\ scr.amount < 0
    /\ Len(scr.plan) = 15
    /\ SumSeq(Shares(scr.amount, 15)) # scr.amount

(***************************************************************************)
(* SpecIdle: idle_movement called again and again in a window              *)
(***************************************************************************)
\* the idle_movement calls of one run
MaxIdleMoves == 2

\* the window sizes page.evaluate reports
Viewports == {<<260, 230>>, <<1280, 800>>}

IdleCall ==
    /\ moves_made < MaxIdleMoves
    /\ IdleMovementCall

IdleSpecInit ==
    /\ BehaviorInit
    /\ StateIdle
    /\ SessionIdle
    /\ \E vp \in Viewports :
        /\ EngineIdleIn(vp)
        /\ \E pos \in {<<0, 0>>, Centre(vp)} : MouseStartedAt(pos)

IdleNext == IdleCall \/ MoveEmit \/ MoveCommit \/ FillerReturn

SpecIdle == IdleSpecInit /\ [][IdleNext]_vars

\* pt lies in [0, viewport.width] x [0, viewport.height]
InViewport(pt) ==
    /\ pt[1] >= 0
    /\ pt[1] <= viewport[1]
    /\ pt[2] >= 0
    /\ pt[2] <= viewport[2]

\* C12: with the pointer inside the window at first, after any number of
\* idle_movement calls every position sent to the device and every value of
\* current_pos lies within [0, viewport.width] x [0, viewport.height].
C12_PointerWithinViewport ==
    /\ InViewport(current_pos)
    /\ last_move # <<>> => InViewport(last_move)

(***************************************************************************)
(* SpecDistraction: maybe_distraction called by a started bot              *)
(***************************************************************************)
\* a personality as _load_state restores it, with the given curiosity
WithCuriosity(c) ==
    Dict([k \in TraitNames |->
            IF k = "curiosity" THEN Num(c) ELSE SamplePersonality(1).v[k]])

\* a sampled personality, and restored ones whose curiosity makes the
\* probability of a distraction 0 and 1
DistractionPersonalities == {SamplePersonality(1), WithCuriosity(0), WithCuriosity(1000)}

\* a started bot with the personality p and no state file
StartedWith(p) ==
    /\ personality = p
    /\ sampled = SamplePersonality(1)
    /\ file = Absent
    /\ stats = [InitStats EXCEPT !.session_start = DateTime(0)]
    /\ pc = "started"
    /\ run = 1
    /\ prev = NoPrev
    /\ saved = FALSE
    /\ loadedMalformed = FALSE

\* the one maybe_distraction call of a behaviour
DistractionCall ==
    /\ dis.calls = 0
    /\ MaybeDistractionCall

DistractionSpecInit ==
    /\ BehaviorInit
    /\ \E p \in DistractionPersonalities : StartedWith(p)
    /\ SessionIdle
    /\ EngineIdleIn(<<260, 230>>)
    /\ MouseStartedAt(Centre(<<260, 230>>))

DistractionNext ==
    \/ DistractionCall
    \/ FillerReturn
    \/ LookAroundNext
    \/ CheckScrollBack
    \/ DistractionReturn
    \/ MoveEmit
    \/ MoveCommit
    \/ MoveFail
    \/ ScrollWheel
    \/ ScrollFinish
    \/ WheelFail

SpecDistraction == DistractionSpecInit /\ [][DistractionNext]_vars

\* the probability of a distraction is forced to 0, to 1
ForcedToZero == DistractionProbability(personality, fatigue) = 0
ForcedToOne == DistractionProbability(personality, fatigue) >= 20 * FatigueScale

\* C13: maybe_distraction with the probability of a distraction forced to 0
\* invokes no filler, calls no device operation and returns False; with it
\* forced to 1 it invokes exactly one filler, the only call directly above
\* it, and returns True when that filler returns.
C13_ForcedDistraction ==
    dis.calls > 0 =>
        /\ ForcedToZero =>
               /\ dis.result = "false"
               /\ dis.invoked = <<>>
               /\ act = <<>>
               /\ moves_made = 0
               /\ scr.made = 0
        /\ ForcedToOne =>
               /\ Len(dis.invoked) = 1
               /\ dis.result \in {"none", "true", "raised"}
               /\ dis.result = "none" =>
                      /\ act # <<>>
                      /\ act[1].name = "maybe_distraction"
                      /\ Len(act) >= 2 => act[2].name = dis.invoked[1]
               /\ dis.result = "raised" => failure.failed
               /\ (act = <<>> /\ ~failure.failed) => dis.result = "true"

\* with the probability forced to 1, maybe_distraction has run look_around
\* and returned True
C13_Witness ==
    /\ ForcedToOne
    /\ dis.calls > 0
    /\ dis.result = "true"
    /\ dis.invoked = <<"look_around">>
    /\ moves_made >= 2

\* C14 as stated: the filler of a maybe_distraction that fires is chosen
\* among all four fillers, hesitate included.
C14_ChosenAmongFour ==
    (dis.calls > 0 /\ dis.invoked # <<>>) => Fillers \subseteq dis.candidates

\* C14 as amended: the filler of a maybe_distraction that fires is chosen
\* among idle_movement, look_around and check_something_else; hesitate is
\* never its choice.
C14_ChosenAmongThree ==
    (dis.calls > 0 /\ dis.invoked # <<>>) =>
        /\ dis.candidates = {"idle_movement", "look_around", "check_something_else"}
        /\ dis.invoked[1] \in dis.candidates
        /\ dis.invoked[1] # "hesitate"
        /\ \A k \in 1..Len(act) : act[k].name # "hesitate"

\* a maybe_distraction of a sampled personality fired, chose
\* check_something_else, and that is inside its look_around
C14_Witness ==
    /\ personality = SamplePersonality(1)
    /\ dis.invoked = <<"check_something_else">>
    /\ Len(act) = 3
    /\ act[3].name = "look_around"
    /\ frames # <<>>

(***************************************************************************)
(* SpecClick: click_at called by a started bot, its task, and a device     *)
(* that may raise. The hold time ends and page.mouse.up() returns or       *)
(* raises.                                                                 *)
(***************************************************************************)
\* a caller that goes on only after an operation that returned
ClickCall ==
    /\ ~failure.failed
    /\ ClickAtCall

ClickSpecInit == BehaviorInit /\ StateIdle /\ SessionIdle /\ MouseInit /\ EngineIdle

ClickNext ==
    \/ ClickCall
    \/ MoveEmit
    \/ MoveCommit
    \/ MoveFail
    \/ ClickPress
    \/ PressFail
    \/ ClickRelease
    \/ ReleaseFail
    \/ MicroMovement
    \/ MicroMovementFail

SpecClick ==
    ClickSpecInit /\ [][ClickNext]_vars /\ WF_vars(ClickRelease \/ ReleaseFail)

\* C15: a click_at sends all the moves of its move_to, then one press,
\* then one release: no press before move_to has returned, no sample of
\* its move_to after the press, at most one press and no release without
\* it, a click_at that returned has pressed and released once, and a press
\* is followed by the release unless page.mouse.up() raises.
C15_MovesPressRelease ==
    /\ [](/\ clk.presses <= 1
          /\ clk.releases <= clk.presses
          /\ clk.presses = 1 => (frames = <<>> /\ clk.pc # "moving")
          /\ clk.pc = "returned" => (clk.presses = 1 /\ clk.releases = 1)
          /\ clk.pc = "holding" => (clk.presses = 1 /\ clk.releases = 0))
    /\ [][(legs' # legs /\ clk'.pc \in {"moving", "holding"}) => clk'.presses = 0]_vars
    /\ (clk.pc = "holding") ~> (clk.releases = 1 \/ failure.at = "up")

\* a click_at has moved the pointer along a path, pressed and released,
\* and its task has nudged the pointer
C15_Witness ==
    /\ clk.pc = "returned"
    /\ clk.presses = 1
    /\ clk.releases = 1
    /\ legs # <<>>
    /\ legs[1].emitted = legs[1].n
    /\ clk.nudges = 1

\* C16: the task of _micro_movement never ends with an exception nobody
\* handles: a failure of its device move is contained inside the task, and
\* click_at does not raise because of it.
C16_JitterNeverRaises ==
    /\ clk.task # "raised"
    /\ (clk.pc = "raised") => failure.failed

\* C17: at every suspension point current_pos is the last position sent to
\* the device, by a sample of move_to or by the nudge of _micro_movement.
C17_PointerTracksDevice ==
    last_move # <<>> => current_pos = last_move

\* a click_at whose varied target was under 5 units from current_pos has
\* returned
NearClickReturned ==
    /\ clk.pc = "returned"
    /\ Dist2(call.start, call.target) < 5 * 5

\* C28 as stated: when the target is under 5 units from current_pos,
\* move_to sends nothing to the device and leaves current_pos unchanged, so
\* a click_at with such a varied target presses and releases where the
\* pointer was, no move before either.
C28_NearClickWithoutMove ==
    NearClickReturned =>
        /\ legs = <<>>
        /\ current_pos = call.start
        /\ clk.down_at = clk.before
        /\ clk.up_at = clk.before

\* C28 as amended: move_to sends nothing and leaves current_pos unchanged,
\* and the press comes with no move before it; the release comes where the
\* pointer was unless the task of _micro_movement has moved the device in
\* between, by at most 2 units on each axis from current_pos.
C28_NearClickMovedOnlyByNudge ==
    NearClickReturned =>
        /\ legs = <<>>
        /\ current_pos = call.start
        /\ clk.down_at = clk.before
        /\ clk.up_at # clk.before =>
               /\ clk.nudges = 1
               /\ clk.up_at[1] - current_pos[1] \in -2..2
               /\ clk.up_at[2] - current_pos[2] \in -2..2

\* click_at((2, 3)) with the variation (-5, -5) from (0, 0): pressed with
\* no move, then nudged, then released
C28_Witness ==
    /\ NearClickReturned
    /\ call.target = <<-3, -2>>
    /\ clk.nudges = 1
    /\ clk.up_at # clk.down_at

(***************************************************************************)
(* SpecDevice: a caller of move_to, of click_at or of scroll, and a device *)
(* that may raise at any call. A behaviour uses one of the three           *)
(* operations, and its caller goes on only after a call that returned.     *)
(***************************************************************************)
DeviceMoveToCall ==
    /\ ~failure.failed
    /\ scr.made = 0
    /\ clk.made = 0
    /\ MoveToCall

DeviceClickCall ==
    /\ ~failure.failed
    /\ scr.made = 0
    /\ moves_made = clk.made
    /\ ClickAtCall

DeviceScrollCall ==
    /\ ~failure.failed
    /\ moves_made = 0
    /\ ScrollCall

DeviceSpecInit == BehaviorInit /\ StateIdle /\ SessionIdle /\ MouseInit /\ EngineIdle

DeviceNext ==
    \/ DeviceMoveToCall
    \/ DeviceClickCall
    \/ DeviceScrollCall
    \/ MoveEmit
    \/ MoveCommit
    \/ MoveFail
    \/ ClickPress
    \/ PressFail
    \/ ClickRelease
    \/ ReleaseFail
    \/ MicroMovement
    \/ MicroMovementFail
    \/ ScrollWheel
    \/ ScrollFinish
    \/ WheelFail

SpecDevice == DeviceSpecInit /\ [][DeviceNext]_vars

\* a step in which the operation itself sends a call to the device: a
\* sample of move_to, a press, a release, a wheel event
OwnDeviceCall ==
    \/ Len(legs') = Len(legs) /\ legs' # legs
    \/ clk'.presses # clk.presses
    \/ clk'.releases # clk.releases
    \/ scr'.made = scr.made /\ scr'.wheels # scr.wheels

\* the failure has left the operation and reached its caller
FailureReachedCaller ==
    /\ frames = <<>>
    /\ ~scr.active
    /\ clk.pc \notin {"moving", "holding"}
    /\ failure.op = "move_to" => (failure.at = "move" /\ ~call.done)
    /\ failure.op = "click_at" => (failure.at \in {"move", "down", "up"} /\ clk.pc = "raised")
    /\ failure.op = "scroll" => (failure.at = "wheel" /\ scr.raised)

\* C18 as stated: after a device call of move_to, click_at or scroll has
\* failed, no further call reaches the device for that operation, the call
\* is not retried, and the failure has reached the caller.
C18_NoFurtherDeviceCall ==
    /\ [](failure.failed => FailureReachedCaller)
    /\ [][failure.failed =>
            /\ ~OwnDeviceCall
            /\ last_move' = last_move
            /\ clk'.nudges = clk.nudges]_vars

\* C18 as amended: after a device call of move_to, click_at or scroll has
\* failed, the operation itself sends no further call and does not retry,
\* and the failure has reached the caller; the only call that may still
\* reach the device is the one nudge of a _micro_movement task that
\* click_at created before page.mouse.down() or page.mouse.up() raised.
C18_OnlyTheNudgeFollows ==
    /\ [](failure.failed => FailureReachedCaller)
    /\ [][failure.failed =>
            /\ ~OwnDeviceCall
            /\ failure' = failure
            /\ clk'.nudges # clk.nudges =>
                   /\ clk.task = "created"
                   /\ clk.nudges = 0
                   /\ clk'.nudges = 1
                   /\ failure.at \in {"down", "up"}
            /\ last_move' # last_move => clk'.nudges # clk.nudges]_vars

\* page.mouse.down() raised in a click_at that had created its task, and
\* the task has nudged the pointer since
C18_Witness ==
    /\ failure.failed
    /\ failure.op = "click_at"
    /\ failure.at = "down"
    /\ clk.nudges = 1
    /\ clk.presses = 0


(***************************************************************************)
(* SpecInsta: one InstagramHumanBot and the callers of its pointer methods *)
(***************************************************************************)
InstaSpecInit == BehaviorInit /\ StateIdle /\ SessionIdle /\ MouseInit /\ EngineIdle

InstaNext ==
    \/ HumanMoveCall
    \/ HumanClickCall
    \/ HumanDoubleTapCall
    \/ HumanScrollCall
    \/ HumanMoveStep
    \/ HumanMoveEnd
    \/ HumanPress
    \/ HumanScrollStep
    \/ HumanScrollEnd

SpecInsta == InstaSpecInit /\ [][InstaNext]_vars

\* C30: after any sequence of human_move, human_click, human_scroll and
\* human_double_tap calls, mouse_pos is the last coordinates sent to the
\* device pointer, so the next human_move starts its path where the pointer
\* is.
C30_MousePosIsPointer ==
    (insta.pc = "idle" /\ insta.sent # <<>>) =>
        insta.sent = Sent(insta.mouse_pos[1], insta.mouse_pos[2])

====
